---- MODULE Spec2Model ----
(***************************************************************************)
(* The timed line-reveal engine of the BootSequence component              *)
(* (client/src/pages/Home.tsx).                                            *)
(*                                                                         *)
(* The component keeps two pieces of React state, `lines` and              *)
(* `isComplete`, and one effect with an empty dependency list that starts  *)
(* the async function runSequence.  runSequence walks the script, awaits   *)
(* one setTimeout per line, appends the line with a functional update and, *)
(* after the loop, sets isComplete.  The effect returns no cleanup         *)
(* function, keeps no timer handle and tests no "still mounted" flag, so   *)
(* a run that was started is never stopped.                                *)
(*                                                                         *)
(* A Line is modelled by its id and its optional delay (hasDelay = FALSE   *)
(* is an omitted `delay`); text and style are carried along by the code    *)
(* unchanged and never read by the engine.  Time is the virtual clock of   *)
(* the timer queue: it advances when the earliest pending timer fires.     *)
(* One step of the model is one task of the event loop (the effect, or a   *)
(* timer callback together with the promise continuation it resumes);      *)
(* React 19 batches the state updates of one task into one render.         *)
(***************************************************************************)
EXTENDS Integers, Sequences, FiniteSets

VARIABLES
    script,        \* the Sequence Script the loop iterates over
    lines,         \* useState<BootLine[]>([])
    isComplete,    \* useState(false)
    effectActive,  \* the boot-sequence effect is currently mounted
    runs,          \* one record per runSequence() call, in call order
    now,           \* virtual time in ms
    timerSeq,      \* number of setTimeout calls made so far
    revealedAt,    \* history: revealedAt[k] is the time lines[k] was appended
    tornDown,      \* history: the effect has been torn down at least once
    cancelled      \* history: a teardown happened while isComplete was false

vars == <<script, lines, isComplete, effectActive, runs, now, timerSeq,
          revealedAt, tornDown, cancelled>>

----------------------------------------------------------------------------
(* Bounds of the model *)

MaxLen == 2

MaxStarts == 2

(* Program constant: the fallback of `line.delay || 100` *)
DefaultDelay == 100

Ids == {"1", "2"}

Delays == {-1, 0, 50}

----------------------------------------------------------------------------
(* Data *)

L(id, d) == [id |-> id, hasDelay |-> TRUE, delay |-> d]

NoDelayLine(id) == [id |-> id, hasDelay |-> FALSE, delay |-> 0]

BootLine == {L(id, d) : id \in Ids, d \in Delays} \cup {NoDelayLine(id) : id \in Ids}

BOOT_SEQUENCE ==
    << L("1", 100), L("2", 50), L("3", 150), L("4", 100),
       L("5", 200), L("6", 50), L("7", 50), L("8", 50),
       L("9", 100), L("10", 100), L("11", 100), L("12", 100),
       L("13", 250), L("14", 400), L("15", 200), L("16", 800) >>

SeqsUpTo(S, n) == UNION {[1..k -> S] : k \in 0..n}

Scripts == SeqsUpTo(BootLine, MaxLen) \cup {BOOT_SEQUENCE}

----------------------------------------------------------------------------
(* runSequence *)

(* variant: the scripted delay is ignored and every line waits the default *)
ProcessingTime_AlwaysDefault(line) == DefaultDelay

(* const processingTime = line.delay || 100;  undefined and 0 are falsy *)
ProcessingTime(line) ==
    IF line.hasDelay /\ line.delay # 0 THEN line.delay ELSE DefaultDelay

(* setTimeout(resolve, t): a negative timeout is run as timeout 0 *)
TimerDelay(t) == IF t < 0 THEN 0 ELSE t

(* variant: the new line is put in front, [line, ...prev] *)
AppendLine_Prepend(prev, line) == <<line>> \o prev

(* setLines((prev) => [...prev, line]) *)
AppendLine(prev, line) == Append(prev, line)

(* variant: the loop stops one line early *)
LoopDone_OffByOne(s, i) == i >= Len(s)

(* the for-of loop is exhausted before iteration i: control reaches
   setIsComplete(true) *)
LoopDone(s, i) == i > Len(s)

(* variant: an empty script makes the run return before setIsComplete(true) *)
LoopStep_EmptyReturns(s, i, t, n) ==
    IF i > Len(s)
    THEN [pc |-> IF Len(s) = 0 THEN "returned" ELSE "done",
          i |-> i, due |-> t, seq |-> n, start |-> t]
    ELSE [pc |-> "await", i |-> i,
          due |-> t + TimerDelay(ProcessingTime(s[i])), seq |-> n + 1,
          start |-> t]

(* variant: the run leaves the loop without calling setIsComplete(true) *)
LoopStep_NoComplete(s, i, t, n) ==
    IF i > Len(s)
    THEN [pc |-> "returned", i |-> i, due |-> t, seq |-> n, start |-> t]
    ELSE [pc |-> "await", i |-> i,
          due |-> t + TimerDelay(ProcessingTime(s[i])), seq |-> n + 1,
          start |-> t]

(* The run after it has reached iteration i of the loop at time t, n timers
   having been set before: either it is suspended on the timer of line i,
   which is timer n + 1, or it has left the loop. *)
LoopStep(s, i, t, n) ==
    IF LoopDone(s, i)
    THEN [pc |-> "done", i |-> i, due |-> t, seq |-> n, start |-> t]
    ELSE [pc |-> "await", i |-> i,
          due |-> t + TimerDelay(ProcessingTime(s[i])), seq |-> n + 1,
          start |-> t]

Awaiting == {r \in 1..Len(runs) : runs[r].pc = "await"}

(* the timer queue runs the pending timer with the earliest due time, and of
   two timers due at the same time the one that was set first *)
Earliest(r) ==
    \A q \in Awaiting :
        \/ runs[r].due < runs[q].due
        \/ runs[r].due = runs[q].due /\ runs[r].seq <= runs[q].seq

----------------------------------------------------------------------------
Init ==
    /\ script \in Scripts
    /\ lines = << >>
    /\ isComplete = FALSE
    /\ effectActive = FALSE
    /\ runs = << >>
    /\ now = 0
    /\ timerSeq = 0
    /\ revealedAt = << >>
    /\ tornDown = FALSE
    /\ cancelled = FALSE

(* useEffect(() => { ...; runSequence(); }, []): the call runs runSequence
   synchronously up to its first await, or to its end for an empty script. *)
StartRun ==
    LET run == LoopStep(script, 1, now, timerSeq) IN
    /\ runs' = Append(runs, run)
    /\ timerSeq' = run.seq
    /\ isComplete' = (isComplete \/ run.pc = "done")
    /\ effectActive' = TRUE
    /\ UNCHANGED <<script, lines, now, revealedAt, tornDown, cancelled>>

(* first mount of the component: React runs the effect after the commit *)
Mount ==
    /\ ~effectActive
    /\ Len(runs) = 0
    /\ StartRun

(* The effect is torn down (unmount, or the simulated unmount of a reusable /
   strict-mode tree).  React would call the effect's cleanup function; the
   effect returns none, so no timer is cleared and no run is stopped. *)
Teardown ==
    /\ effectActive
    /\ effectActive' = FALSE
    /\ tornDown' = TRUE
    /\ cancelled' = (cancelled \/ ~isComplete)
    /\ UNCHANGED <<script, lines, isComplete, runs, now, timerSeq, revealedAt>>

(* The effect is mounted again on the same component instance (state kept):
   with [] dependencies it runs once per mount of the effect, and nothing in
   it remembers that a run was already started. *)
Remount ==
    /\ ~effectActive
    /\ Len(runs) >= 1
    /\ Len(runs) < MaxStarts
    /\ StartRun

(* The timer of run r fires; resolve() resumes the run, which appends its
   line and goes round the loop: it either sets the next timer or leaves the
   loop and calls setIsComplete(true). *)
Fire(r) ==
    /\ r \in Awaiting
    /\ Earliest(r)
    /\ LET t    == runs[r].due
           i    == runs[r].i
           next == LoopStep(script, i + 1, t, timerSeq)
       IN /\ now' = t
          /\ lines' = AppendLine(lines, script[i])
          /\ revealedAt' = Append(revealedAt, t)
          /\ runs' = [runs EXCEPT ![r] = [next EXCEPT !.start = runs[r].start]]
          /\ timerSeq' = next.seq
          /\ isComplete' = (isComplete \/ next.pc = "done")
    /\ UNCHANGED <<script, effectActive, tornDown, cancelled>>

Next ==
    \/ Mount
    \/ Teardown
    \/ Remount
    \/ \E r \in 1..MaxStarts : Fire(r)

Spec == Init /\ [][Next]_vars

(* The effect of a mounted component does run, and a pending timer does
   fire. *)
FairSpec ==
    /\ Init /\ [][Next]_vars
    /\ WF_vars(Mount)
    /\ \A r \in 1..MaxStarts : WF_vars(Fire(r))

----------------------------------------------------------------------------
(* Helpers of the properties *)

IsPrefix(a, b) == Len(a) <= Len(b) /\ \A k \in 1..Len(a) : a[k] = b[k]

DistinctIds(s) == \A i, j \in 1..Len(s) : s[i].id = s[j].id => i = j

(* a well-formed script: unique ids, no negative delay *)
WellFormed(s) ==
    /\ DistinctIds(s)
    /\ \A i \in 1..Len(s) : s[i].hasDelay => s[i].delay >= 0

(* the delay the script asks for: the default only for an omitted delay *)
ScriptedDelay(line) == IF line.hasDelay THEN line.delay ELSE DefaultDelay

RECURSIVE SumDelays(_, _)
SumDelays(s, k) == IF k = 0 THEN 0 ELSE SumDelays(s, k - 1) + ScriptedDelay(s[k])

(* exactly one runSequence() call was made and its effect was never torn down *)
SingleUncancelledRun == Len(runs) = 1 /\ ~tornDown

AllDone == Len(runs) >= 1 /\ Awaiting = {}

----------------------------------------------------------------------------
(* C1: for a well-formed script, a single uncancelled run ends with lines
   equal to the script, element for element and in script order, with
   Len(script) elements and isComplete true; and isComplete is true in no
   state in which the last scripted line has not been appended yet. *)
C1_RunRevealsScriptInOrder ==
    (WellFormed(script) /\ SingleUncancelledRun) =>
        /\ AllDone => (lines = script /\ Len(lines) = Len(script) /\ isComplete)
        /\ isComplete => lines = script
        /\ IsPrefix(lines, script)

C1_Witness ==
    /\ WellFormed(script) /\ SingleUncancelledRun /\ AllDone
    /\ Len(script) = MaxLen /\ lines = script /\ isComplete

(* C2 (as claimed): once the effect has been torn down before completion, no
   later step appends a line or sets isComplete, as long as no new run has
   been started. *)
C2_NoEmissionAfterTeardown ==
    [][(cancelled /\ Len(runs) = 1 /\ Len(runs') = 1)
          => (lines' = lines /\ isComplete' = isComplete)]_vars

(* C3 (as claimed): in a single run over a well-formed script, line k is
   appended after a cumulative wait equal to the sum of the scripted delays
   of lines 1..k, the default standing in only for an omitted delay; a line
   with delay 0 adds no wait. *)
C3_CumulativeWaitIsSumOfDelays ==
    (WellFormed(script) /\ Len(runs) = 1) =>
        \A k \in 1..Len(lines) :
            revealedAt[k] = runs[1].start + SumDelays(script, k)

(* C4 (as claimed): starting the effect again on the same state while an
   earlier run is unfinished is ignored: for a well-formed script, lines
   never holds two entries with the same id and is never longer than the
   script. *)
C4_SecondStartIgnored ==
    WellFormed(script) => (DistinctIds(lines) /\ Len(lines) <= Len(script))

(* C5 (as claimed): a script with a duplicate id or a negative delay is
   rejected before the engine starts: no line of it is ever appended and
   isComplete never becomes true. *)
C5_MalformedScriptRejected ==
    ~WellFormed(script) => (lines = << >> /\ ~isComplete)

(* C6: with an empty script, starting the engine sets isComplete in the same
   step, no timer is ever pending, no time passes, and lines stays empty. *)
C6_EmptyScriptCompletesImmediately ==
    script = << >> =>
        /\ lines = << >>
        /\ Awaiting = {}
        /\ now = 0
        /\ isComplete <=> Len(runs) >= 1

C6_Witness == script = << >> /\ Len(runs) = 1 /\ isComplete /\ lines = << >>

(* C7: in every state of a single run over a non-empty script exactly one
   phase holds: revealing (isComplete false, fewer lines than the script) or
   complete (isComplete true, as many lines as the script). *)
C7_TwoPhases ==
    (Len(script) > 0 /\ Len(runs) <= 1) =>
        \/ ~isComplete /\ Len(lines) < Len(script)
        \/ isComplete /\ Len(lines) = Len(script)

C7_Witness ==
    /\ Len(script) = MaxLen /\ Len(runs) = 1
    /\ ~isComplete /\ Len(lines) = Len(script) - 1

(* C8 (as claimed): in every reachable state lines is a prefix of the
   script. *)
C8_RevealedIsPrefix == IsPrefix(lines, script)

(* C9: if the effect is never torn down and pending timers fire, the run
   reaches isComplete = TRUE; and, short of a teardown, once isComplete is
   true no step resets it or changes lines. *)
C9_CompletesOnceAndStays ==
    /\ <>(tornDown \/ isComplete)
    /\ [][(isComplete /\ ~tornDown') => (isComplete' /\ lines' = lines)]_vars

C9_Witness == ~tornDown /\ isComplete /\ Len(lines) = MaxLen /\ Len(runs) = 1

(* C10: the shipped BOOT_SEQUENCE has 16 pairwise distinct ids, every line
   has an explicit positive delay, and a single uncancelled run appends the
   16th line and sets isComplete after exactly 2800 ms. *)
C10_BootSequenceTakes2800ms ==
    /\ Len(BOOT_SEQUENCE) = 16
    /\ WellFormed(BOOT_SEQUENCE)
    /\ \A k \in 1..Len(BOOT_SEQUENCE) :
           BOOT_SEQUENCE[k].hasDelay /\ BOOT_SEQUENCE[k].delay > 0
    /\ (script = BOOT_SEQUENCE /\ SingleUncancelledRun) =>
           /\ isComplete <=> Len(lines) = 16
           /\ isComplete => (revealedAt[16] = 2800 /\ now = 2800)
           /\ \A k \in 1..Len(lines) : revealedAt[k] <= 2800

C10_Witness ==
    /\ script = BOOT_SEQUENCE /\ SingleUncancelledRun
    /\ isComplete /\ Len(lines) = 16 /\ now = 2800

====
